---- MODULE Spec2Model ----
(***************************************************************************)
(* Supermodel ROM loading (ROMLoad.cpp): CopyRegion, FindROMByCRC,         *)
(* ByteSwap, LoadROM and LoadROMSetFromZIPFile.                            *)
(*                                                                         *)
(* Lists (GameList, a game's ROM list, the ROM map, the ZIP directory) are *)
(* sequences, so the code's 0-based list index j is j+1 here; byte buffers *)
(* are functions on 0..n-1 and keep the code's byte indices.               *)
(* Bytes are symbolic pairs: byte s of the file at ZIP position e is       *)
(* <<e, s>>, so that every file byte is distinguishable from every other.  *)
(***************************************************************************)
EXTENDS Integers, Sequences, FiniteSets, TLC

VARIABLES
    GameList,           \* the catalog: a sequence of games, each a sequence of ROMInfo
    Map,                \* the ROM map: a sequence of region names (Map[i].region)
    loadAll,            \* the loadAll parameter
    zip,                \* the ZIP directory: a sequence of entries
    pc,                 \* position in LoadROMSetFromZIPFile
    pos,                \* the ZIP's current file (1-based), moved by unzGoToNextFile
    Game,               \* the identified game (index in GameList), NULL if none
    romsFound,          \* the set of ROM indices i with romsFound[i] != 0
    multipleGameError,  \* the warn-once flag
    buf,                \* the scratch buffer, <<>> while not allocated
    dest,               \* dest[i]: the bytes behind Map[i].ptr
    log,                \* the ErrorLog/DebugLog calls made so far
    ret,                \* the value returned, Running until the function returns
    zf,                 \* the ZIP handle: "none", "open", "closed"
    bufState,           \* the scratch buffer's allocation: "none", "live", "freed"
    ub,                 \* TRUE once a byte outside the scratch buffer was accessed
    cr,                 \* the state of one CopyRegion call
    bs                  \* the state of a buffer that ByteSwap is called on

vars == <<GameList, Map, loadAll, zip, pc, pos, Game, romsFound,
          multipleGameError, buf, dest, log, ret, zf, bufState, ub, cr, bs>>

loaderVars == <<GameList, Map, loadAll, zip, pc, pos, Game, romsFound,
                multipleGameError, buf, dest, log, ret, zf, bufState, ub>>

-----------------------------------------------------------------------------
(* Bounds and input sets *)

MaxEntries == 3         \* longest ZIP directory of Spec and SpecIO
MaxLayoutEntries == 2   \* longest ZIP directory of SpecLayout
MaxCopy == 4            \* largest destSize and destOffset of a CopyRegion call
MaxSwap == 4            \* largest buffer ByteSwap is called on

UIntModulus == 16       \* unsigned arithmetic wraps here (2^32 in the build, scaled down)

NULL == 0               \* the null GameInfo pointer
Running == -1           \* ret before LoadROMSetFromZIPFile has returned

CRCs == {1, 2, 3}
FileSizes == {1, 2}     \* the uncompressed sizes a ZIP entry may declare
Regions == {"A", "B"}
DestIdx == 0..3         \* byte indices of every caller-owned region buffer

Untouched == <<0, 0>>   \* a destination byte as the caller passed it in
Uninit == <<0, 1>>      \* a scratch byte never written since new[]
Junk == {<<0, 2>>, <<0, 3>>}    \* what a read of an indeterminate byte may yield
FileByte(e, s) == <<e, s>>      \* byte s of the file at ZIP position e

Max(a, b) == IF a >= b THEN a ELSE b
Min(a, b) == IF a <= b THEN a ELSE b

SeqsUpTo(S, n) == UNION {[1..k -> S] : k \in 0..n}
NoDup(s) == \A i, j \in 1..Len(s) : i # j => s[i] # s[j]

ROMInfo(rg, c, fs, sw, off, st, gs) ==
    [region |-> rg, crc |-> c, fileSize |-> fs, byteSwap |-> sw,
     offset |-> off, stride |-> st, groupSize |-> gs]

\* A ZIP directory entry: whether unzGetCurrentFileInfo can read it (hdr), the CRC
\* and uncompressed size it declares, whether unzOpenCurrentFile opens it, the
\* number of bytes its data yields, and whether the data fails the CRC check
\* made when the file is closed.
Entry(c, h, u, o, n, x) ==
    [crc |-> c, hdr |-> h, usize |-> u, openOk |-> o, stored |-> n, corrupt |-> x]
CleanEntry(c, size) == Entry(c, TRUE, size, TRUE, size, FALSE)
BadHeader == Entry(0, FALSE, 0, FALSE, 0, FALSE)

\* The catalog of Spec: games share files, a file has one layout wherever it is used.
ROMLib(c) ==
    CASE c = 1 -> ROMInfo("A", 1, 2, FALSE, 0, 2, 1)
      [] c = 2 -> ROMInfo("A", 2, 2, TRUE, 1, 2, 1)
      [] OTHER -> ROMInfo("B", 3, 1, FALSE, 0, 1, 1)
Increasing(s) == \A i, j \in 1..Len(s) : i < j => s[i] < s[j]
LibGames == {[i \in 1..Len(s) |-> ROMLib(s[i])] :
                s \in {t \in SeqsUpTo(CRCs, 2) : Len(t) >= 1 /\ Increasing(t)}}
Catalogs == {g \in SeqsUpTo(LibGames, 2) : Len(g) >= 1 /\ NoDup(g)}
Maps == {<<"A", "B">>, <<"A">>}

\* The archives of Spec: sound files of the library, and unreadable directory entries.
Entries == {CleanEntry(c, ROMLib(c).fileSize) : c \in CRCs} \cup {BadHeader}
Archives == SeqsUpTo(Entries, MaxEntries)

\* The archives of SpecIO: files of one game with at most one thing wrong each.
IOGame == <<ROMLib(1), ROMLib(3)>>
Anomalies(e) ==
    Cardinality({k \in 1..4 :
        \/ k = 1 /\ e.usize # ROMLib(e.crc).fileSize
        \/ k = 2 /\ ~e.openOk
        \/ k = 3 /\ e.stored # e.usize
        \/ k = 4 /\ e.corrupt})
IOEntries ==
    {e \in [crc : {1, 3}, hdr : {TRUE}, usize : FileSizes, openOk : BOOLEAN,
            stored : FileSizes \cup {0}, corrupt : BOOLEAN] :
        Anomalies(e) <= 1 /\ e.stored <= e.usize} \cup {BadHeader}
IOArchives == SeqsUpTo(IOEntries, MaxEntries)

\* The catalogs of SpecLayout: one game of one or two files in region "A", every
\* layout whose destination bytes lie inside the region buffer.
Layouts(c) ==
    {r \in [region : {"A"}, crc : {c}, fileSize : FileSizes, byteSwap : BOOLEAN,
            offset : 0..1, stride : 1..2, groupSize : 1..2] : TRUE}
LayoutCatalogs ==
    {<<<<r1>>>> : r1 \in Layouts(1)} \cup {<<<<r1, r2>>>> : r1 \in Layouts(1), r2 \in Layouts(2)}
LayoutEntries(GL) == {CleanEntry(GL[1][i].crc, GL[1][i].fileSize) : i \in 1..Len(GL[1])}

-----------------------------------------------------------------------------
(* FindROMByCRCInGame, FindROMByCRC *)

\* The lowest index j with Game->ROM[j].crc == crc, or 0 (FAIL).
FindROMByCRCInGame(G, crc) ==
    LET hits == {j \in 1..Len(G) : G[j].crc = crc}
    IN  IF hits = {} THEN 0 ELSE CHOOSE j \in hits : \A k \in hits : j <= k

\* Faulty variant: TryGame is not searched first.
FindROMByCRCNoBias(GL, TryGame, crc) ==
    LET hits == {i \in 1..Len(GL) : FindROMByCRCInGame(GL[i], crc) # 0}
    IN  IF hits = {} THEN <<NULL, 0>>
        ELSE LET i == CHOOSE i \in hits : \A k \in hits : i <= k
             IN  <<i, FindROMByCRCInGame(GL[i], crc)>>

\* <<game, romIdx>> of the first hit: TryGame first, then GameList in order;
\* <<NULL, 0>> is FAIL.
FindROMByCRC(GL, TryGame, crc) ==
    IF TryGame # NULL /\ FindROMByCRCInGame(GL[TryGame], crc) # 0
    THEN <<TryGame, FindROMByCRCInGame(GL[TryGame], crc)>>
    ELSE LET hits == {i \in 1..Len(GL) : FindROMByCRCInGame(GL[i], crc) # 0}
         IN  IF hits = {} THEN <<NULL, 0>>
             ELSE LET i == CHOOSE i \in hits : \A k \in hits : i <= k
                  IN  <<i, FindROMByCRCInGame(GL[i], crc)>>

-----------------------------------------------------------------------------
(* ByteSwap *)

\* buf[i] as the program reads it: a byte outside the allocation, or one never
\* written, is indeterminate and reads as junk.
Rd(b, i, junk) ==
    IF i \in DOMAIN b THEN (IF b[i] = Uninit THEN junk ELSE b[i]) ELSE junk

\* buf[i] = v; a write outside the allocation lands outside the buffer.
Wr(b, i, v) == IF i \in DOMAIN b THEN [b EXCEPT ![i] = v] ELSE b

RECURSIVE ByteSwapFrom(_, _, _, _)
ByteSwapFrom(b, i, size, junk) ==
    IF i >= size THEN b
    ELSE LET x == Rd(b, i, junk)
         IN  ByteSwapFrom(Wr(Wr(b, i, Rd(b, i + 1, junk)), i + 1, x), i + 2, size, junk)

\* for (i = 0; i < size; i += 2) swap buf[i], buf[i+1]
ByteSwap(b, size, junk) == ByteSwapFrom(b, 0, size, junk)

\* The buffer indices ByteSwap(buf, size) touches.
ByteSwapIdx(size) == UNION {{i, i + 1} : i \in {k \in 0..(size - 1) : k % 2 = 0}}

\* ByteSwap(buf, size) on a buffer of its own: the call and what it leaves.
\* A read outside the buffer yields an indeterminate byte.
ByteSwapCall ==
    /\ bs.pc = "call"
    /\ bs.calls < 2
    /\ \E junk \in Junk :
          bs' = [bs EXCEPT !.buf = ByteSwap(bs.buf, bs.size, junk),
                           !.calls = bs.calls + 1,
                           !.ub = bs.ub \/ (ByteSwapIdx(bs.size) \ DOMAIN bs.buf # {})]
    /\ UNCHANGED <<loaderVars, cr>>

-----------------------------------------------------------------------------
(* LoadROM *)

\* The inner loop at destIdx: for (j = 0; j < groupSize; j++) ptr[destIdx+j] = buf[srcIdx++]
WriteGroup(p, b, destIdx, srcIdx, groupSize, junk) ==
    [i \in DOMAIN p |->
        IF destIdx <= i /\ i < destIdx + groupSize
        THEN Rd(b, srcIdx + (i - destIdx), junk) ELSE p[i]]

\* Faulty variant: the destination advances by what was copied, not by the stride.
RECURSIVE PlaceFromPacked(_, _, _, _, _, _)
PlaceFromPacked(p, b, ROM, srcIdx, destIdx, junk) ==
    IF srcIdx >= ROM.fileSize THEN p
    ELSE PlaceFromPacked(WriteGroup(p, b, destIdx, srcIdx, ROM.groupSize, junk), b, ROM,
                         srcIdx + ROM.groupSize, destIdx + ROM.groupSize, junk)

RECURSIVE PlaceFrom(_, _, _, _, _, _)
PlaceFrom(p, b, ROM, srcIdx, destIdx, junk) ==
    IF srcIdx >= ROM.fileSize THEN p
    ELSE PlaceFrom(WriteGroup(p, b, destIdx, srcIdx, ROM.groupSize, junk), b, ROM,
                   srcIdx + ROM.groupSize, destIdx + ROM.stride, junk)

\* Faulty variant: placement starts at the head of the region.
PlaceAtZero(p, b, ROM, junk) == PlaceFrom(p, b, ROM, 0, 0, junk)

\* destIdx = ROM->offset; for (srcIdx = 0; srcIdx < ROM->fileSize; ) { ... }
Place(p, b, ROM, junk) == PlaceFrom(p, b, ROM, 0, ROM.offset, junk)

\* The outer loop never ends when the inner loop copies nothing.
PlaceHangs(ROM) == ROM.groupSize = 0 /\ ROM.fileSize > 0

\* Number of outer iterations, and the scratch/destination indices they touch.
Groups(ROM) == (ROM.fileSize + ROM.groupSize - 1) \div ROM.groupSize
PlaceSrcIdx(ROM) == 0..(Groups(ROM) * ROM.groupSize - 1)
PlaceDestIdx(ROM) ==
    {ROM.offset + g * ROM.stride + j : g \in 0..(Groups(ROM) - 1), j \in 0..(ROM.groupSize - 1)}

\* The size of a byte buffer.
Size(b) == Cardinality(DOMAIN b)

\* Faulty variant: a region that is not in the map falls back on the map's first entry.
MapIndexOrFirst(M, region) ==
    LET hits == {i \in 1..Len(M) : M[i] = region}
    IN  IF hits = {} THEN (IF Len(M) > 0 THEN 1 ELSE 0)
        ELSE CHOOSE i \in hits : \A k \in hits : i <= k

\* The first i with Map[i].region equal to the ROM's region, or 0.
MapIndex(M, region) ==
    LET hits == {i \in 1..Len(M) : M[i] = region}
    IN  IF hits = {} THEN 0 ELSE CHOOSE i \in hits : \A k \in hits : i <= k

\* Faulty variant: a file that fails its CRC check delivers no bytes.
BytesReadVerified(entry, bufSize) == IF entry.corrupt THEN 0 ELSE Min(entry.stored, bufSize)

\* unzReadCurrentFile(zf, buf, bufSize): the number of bytes read.
BytesRead(entry, bufSize) == Min(entry.stored, bufSize)

\* unzReadCurrentFile(zf, buf, bufSize) returning n: the file's first n bytes land in buf.
ReadInto(b, e, n) == [i \in DOMAIN b |-> IF i < n THEN FileByte(e, i) ELSE b[i]]

\* LoadROM(buf, bufSize, Map, ROM, zf, zipFile, loadAll) on the file at ZIP position e,
\* which is ROM j of the game. ok is the return value (OKAY), msgs the ErrorLog calls,
\* junk what an indeterminate scratch byte reads as.
LoadROM(b, bufSize, M, d, ROM, j, e, entry, la, junk) ==
    LET same == [ok |-> FALSE, buf |-> b, dest |-> d, msgs |-> <<>>, ub |-> FALSE, hang |-> FALSE]
        bytes == BytesRead(entry, bufSize)
    IN  IF ~entry.hdr THEN [same EXCEPT !.msgs = <<<<"name", e, j>>>>]
        ELSE IF entry.usize # ROM.fileSize THEN [same EXCEPT !.msgs = <<<<"size", e, j>>>>]
        ELSE IF ~entry.openOk THEN [same EXCEPT !.msgs = <<<<"read", e, j>>>>]
        ELSE IF bytes # ROM.fileSize
        THEN [same EXCEPT !.buf = ReadInto(b, e, bytes), !.msgs = <<<<"read", e, j>>>>]
        ELSE LET read == ReadInto(b, e, bytes)
                 warn == IF entry.corrupt THEN <<<<"crc", e, j>>>> ELSE <<>>
                 swapped == IF ROM.byteSwap THEN ByteSwap(read, ROM.fileSize, junk) ELSE read
                 i == MapIndex(M, ROM.region)
                 touched == (IF ROM.byteSwap THEN ByteSwapIdx(ROM.fileSize) ELSE {})
                            \cup (IF i # 0 /\ ~PlaceHangs(ROM) THEN PlaceSrcIdx(ROM) ELSE {})
                 out == touched \ DOMAIN b # {}
             IN  IF i # 0
                 THEN IF PlaceHangs(ROM)
                      THEN [ok |-> FALSE, buf |-> swapped, dest |-> d, msgs |-> warn,
                            ub |-> out, hang |-> TRUE]
                      ELSE [ok |-> TRUE, buf |-> swapped,
                            dest |-> [d EXCEPT ![i] = Place(d[i], swapped, ROM, junk)],
                            msgs |-> warn, ub |-> out, hang |-> FALSE]
                 ELSE IF la
                      THEN [ok |-> FALSE, buf |-> swapped, dest |-> d,
                            msgs |-> warn \o <<<<"nomap", e, j>>>>, ub |-> out, hang |-> FALSE]
                      ELSE [ok |-> TRUE, buf |-> swapped, dest |-> d, msgs |-> warn,
                            ub |-> out, hang |-> FALSE]

-----------------------------------------------------------------------------
(* LoadROMSetFromZIPFile *)

NumROMs(G) == Len(G)

\* Faulty variant: the report loop starts at the second ROM.
MissingROMsFromSecond(G, found) ==
    SelectSeq([i \in 1..Len(G) |-> i], LAMBDA i : i \notin found /\ i > 1)

\* The ROMs the check after the scan reports as missing, in order.
MissingROMs(G, found) == SelectSeq([i \in 1..NumROMs(G) |-> i], LAMBDA i : i \notin found)

\* The ROMs the final check reports as not loaded, in order.
UnloadedROMs(G, found) == SelectSeq([i \in 1..NumROMs(G) |-> i], LAMBDA i : i \notin found)

Tagged(kind, s) == [k \in 1..Len(s) |-> <<kind, 0, s[k]>>]

\* maxSize: the largest fileSize of the game.
MaxSize(G) ==
    IF NumROMs(G) = 0 THEN 0
    ELSE CHOOSE m \in {G[i].fileSize : i \in 1..NumROMs(G)} :
            \A i \in 1..NumROMs(G) : G[i].fileSize <= m

Return(r) == /\ ret' = r
             /\ pc' = "done"

\* Lines 200-215: unzOpen, memset(romsFound), unzGoToFirstFile.
OpenArchive ==
    /\ pc = "start"
    /\ \E opened \in BOOLEAN, listed \in BOOLEAN :
        IF ~opened
        THEN /\ log' = Append(log, <<"open", 0, 0>>)
             /\ Return(NULL)
             /\ UNCHANGED <<zf, pos>>
        ELSE IF ~(listed /\ zip # <<>>)
        THEN /\ log' = Append(log, <<"contents", 0, 0>>)
             /\ zf' = "open"
             /\ Return(NULL)
             /\ UNCHANGED pos
        ELSE /\ zf' = "open"
             /\ pos' = 1
             /\ pc' = "scan"
             /\ UNCHANGED <<log, ret>>
    /\ romsFound' = {}
    /\ UNCHANGED <<GameList, Map, loadAll, zip, Game, multipleGameError, buf, dest,
                   bufState, ub, cr, bs>>

\* Faulty variant: every match replaces the identified game.
ScanGameLatest(G, CurGame) == CurGame

\* The game the scan holds after the file at pos: the first game identified stays.
ScanGame(G, CurGame) == IF G = NULL THEN CurGame ELSE G

\* Faulty variant: the mark is made whatever game the file belongs to.
ScanMarkAny(found, G, CurGame, romIdx) == found \cup {romIdx}

\* The romsFound mark of the scan: only a ROM of the identified game is marked.
ScanMark(found, G, CurGame, romIdx) == IF G = CurGame THEN found \cup {romIdx} ELSE found

\* Lines 216-245: one iteration of the scan loop, on the file at pos.
ScanFile ==
    /\ pc = "scan"
    /\ pos <= Len(zip)
    /\ LET hit == FindROMByCRC(GameList, Game, zip[pos].crc)
           CurGame == hit[1]
           romIdx == hit[2]
       IN  IF ~zip[pos].hdr \/ CurGame = NULL
           THEN UNCHANGED <<Game, romsFound, multipleGameError, log>>
           ELSE /\ Game' = ScanGame(Game, CurGame)
                /\ romsFound' = ScanMark(romsFound, Game', CurGame, romIdx)
                /\ multipleGameError' = (multipleGameError \/ (Game # NULL /\ CurGame # Game))
                /\ log' = log \o
                     (IF Game = NULL THEN <<<<"identified", CurGame, 0>>>>
                      ELSE IF CurGame # Game
                      THEN <<<<"also", CurGame, 0>>>> \o
                           (IF ~multipleGameError THEN <<<<"multiple", Game, 0>>>> ELSE <<>>)
                      ELSE <<>>)
    /\ pos' = pos + 1
    /\ UNCHANGED <<GameList, Map, loadAll, zip, pc, buf, dest, ret, zf, bufState, ub, cr, bs>>

\* Lines 247-269: after the scan, no game or a ROM missing ends the load.
CheckROMs ==
    /\ pc = "scan"
    /\ pos > Len(zip)
    /\ IF Game = NULL
       THEN /\ log' = Append(log, <<"nogame", 0, 0>>)
            /\ Return(NULL)
            /\ UNCHANGED zf
       ELSE LET missing == MissingROMs(GameList[Game], romsFound)
            IN  /\ log' = log \o Tagged("missing", missing)
                /\ IF missing # <<>>
                   THEN /\ zf' = "closed"
                        /\ Return(NULL)
                   ELSE /\ pc' = "alloc"
                        /\ UNCHANGED <<zf, ret>>
    /\ UNCHANGED <<GameList, Map, loadAll, zip, pos, Game, romsFound, multipleGameError,
                   buf, dest, bufState, ub, cr, bs>>

\* Lines 271-294: allocate the scratch buffer, clear romsFound, rewind the ZIP.
BeginLoad ==
    /\ pc = "alloc"
    /\ \E allocated \in BOOLEAN, listed \in BOOLEAN :
        LET maxSize == MaxSize(GameList[Game])
        IN  IF ~allocated
            THEN /\ zf' = "closed"
                 /\ log' = Append(log, <<"nomem", 0, 0>>)
                 /\ Return(NULL)
                 /\ UNCHANGED <<buf, bufState, romsFound, pos>>
            ELSE /\ buf' = [i \in 0..(maxSize - 1) |-> Uninit]
                 /\ romsFound' = {}
                 /\ IF ~listed
                    THEN \* goto Quit
                         /\ log' = Append(log, <<"contents", 0, 0>>)
                         /\ zf' = "closed"
                         /\ bufState' = "freed"
                         /\ Return(NULL)
                         /\ UNCHANGED pos
                    ELSE /\ bufState' = "live"
                         /\ pos' = 1
                         /\ pc' = "load"
                         /\ UNCHANGED <<log, zf, ret>>
    /\ UNCHANGED <<GameList, Map, loadAll, zip, Game, multipleGameError, dest, ub, cr, bs>>

\* Whether the load loop hands the file to LoadROM: only a ROM of the identified game.
Belongs(CurGame, G) == CurGame = G

\* Lines 295-307: one iteration of the load loop, on the file at pos.
LoadFile ==
    /\ pc = "load"
    /\ pos <= Len(zip)
    /\ LET hit == FindROMByCRC(GameList, Game, zip[pos].crc)
           CurGame == hit[1]
           romIdx == hit[2]
       IN  IF ~zip[pos].hdr \/ CurGame = NULL \/ ~Belongs(CurGame, Game)
           THEN /\ pos' = pos + 1
                /\ UNCHANGED <<pc, romsFound, buf, dest, log, ub>>
           ELSE \E junk \in Junk :
                  LET r == LoadROM(buf, Size(buf), Map, dest, GameList[Game][romIdx], romIdx,
                                   pos, zip[pos], loadAll, junk)
                  IN  /\ buf' = r.buf
                      /\ dest' = r.dest
                      /\ log' = log \o r.msgs
                      /\ ub' = (ub \/ r.ub)
                      /\ romsFound' = IF r.ok THEN romsFound \cup {romIdx} ELSE romsFound
                      /\ IF r.hang
                         THEN /\ pc' = "hung"
                              /\ UNCHANGED pos
                         ELSE /\ pos' = pos + 1
                              /\ UNCHANGED pc
    /\ UNCHANGED <<GameList, Map, loadAll, zip, Game, multipleGameError, ret, zf, bufState, cr, bs>>

\* Faulty variant: one loaded ROM is enough.
AllLoadedSome(la, G, found) == IF la THEN found # {} ELSE TRUE

\* Lines 309-326: the value of err at Quit (TRUE: OKAY).
AllLoaded(la, G, found) == IF la THEN Len(UnloadedROMs(G, found)) = 0 ELSE TRUE

\* Lines 309-331: the final check, Quit, and the return.
Finish ==
    /\ pc = "load"
    /\ pos > Len(zip)
    /\ log' = log \o (IF loadAll THEN Tagged("failed", UnloadedROMs(GameList[Game], romsFound))
                      ELSE <<>>)
    /\ zf' = "closed"
    /\ bufState' = "freed"
    /\ Return(IF AllLoaded(loadAll, GameList[Game], romsFound) THEN Game ELSE NULL)
    /\ UNCHANGED <<GameList, Map, loadAll, zip, pos, Game, romsFound, multipleGameError,
                   buf, dest, ub, cr, bs>>

-----------------------------------------------------------------------------
(* CopyRegion *)

SrcByte(i) == <<1, i>>      \* src[i]

\* Lines 52-53: the copy length of one iteration.
TrimmedSize(destOffset, destSize, srcSize) ==
    IF (destOffset + srcSize) % UIntModulus >= destSize
    THEN (destSize - destOffset) % UIntModulus ELSE srcSize

\* Faulty variant: the source is read at the destination's index.
CopyTileNoRestart(d, destOffset, srcSize) ==
    [i \in DOMAIN d |->
        IF destOffset <= i /\ i < destOffset + srcSize THEN SrcByte(i) ELSE d[i]]

\* Line 56: memcpy(&dest[destOffset], src, srcSize), on the bytes of dest.
CopyTile(d, destOffset, srcSize) ==
    [i \in DOMAIN d |->
        IF destOffset <= i /\ i < destOffset + srcSize THEN SrcByte(i - destOffset) ELSE d[i]]

\* Lines 49-59: one iteration of the loop.
CopyRegionStep ==
    /\ cr.pc = "loop"
    /\ cr.destOffset < cr.destSize
    /\ LET n == TrimmedSize(cr.destOffset, cr.destSize, cr.srcSize)
       IN  cr' = [cr EXCEPT !.srcSize = n,
                            !.dest = CopyTile(cr.dest, cr.destOffset, n),
                            !.overrun = cr.overrun \/ cr.destOffset + n > cr.destSize,
                            !.destOffset = (cr.destOffset + n) % UIntModulus]
    /\ UNCHANGED <<loaderVars, bs>>

\* Line 49 false: the function returns.
CopyRegionReturn ==
    /\ cr.pc = "loop"
    /\ ~(cr.destOffset < cr.destSize)
    /\ cr' = [cr EXCEPT !.pc = "done"]
    /\ UNCHANGED <<loaderVars, bs>>

-----------------------------------------------------------------------------
(* Specifications *)

CrIdle == [pc |-> "idle"]
BsIdle == [pc |-> "idle"]

InitLoader ==
    /\ pos = 0
    /\ Game = NULL
    /\ romsFound = {}
    /\ multipleGameError = FALSE
    /\ buf = <<>>
    /\ dest = [i \in 1..Len(Map) |-> [k \in DestIdx |-> Untouched]]
    /\ log = <<>>
    /\ ret = Running
    /\ zf = "none"
    /\ bufState = "none"
    /\ ub = FALSE

Init ==
    /\ pc = "start"
    /\ cr = CrIdle
    /\ bs = BsIdle
    /\ GameList \in Catalogs
    /\ Map \in Maps
    /\ loadAll \in BOOLEAN
    /\ zip \in Archives
    /\ InitLoader

\* One game of the library, files with at most one thing wrong each.
InitIO ==
    /\ pc = "start"
    /\ cr = CrIdle
    /\ bs = BsIdle
    /\ GameList = <<IOGame>>
    /\ Map \in Maps
    /\ loadAll \in BOOLEAN
    /\ zip \in IOArchives
    /\ InitLoader

\* One game with a byte-swapped ROM; files of the right size that pass or fail
\* the CRC check made when the file is closed.
CRCGame == <<ROMLib(2), ROMLib(3)>>
CRCEntries ==
    {Entry(r.crc, TRUE, r.fileSize, TRUE, r.fileSize, x) : r \in {ROMLib(2), ROMLib(3)}, x \in BOOLEAN}
InitCRC ==
    /\ pc = "start"
    /\ cr = CrIdle
    /\ bs = BsIdle
    /\ GameList = <<CRCGame>>
    /\ Map \in Maps
    /\ loadAll \in BOOLEAN
    /\ zip \in SeqsUpTo(CRCEntries, MaxEntries)
    /\ InitLoader

\* Catalogs whose games may list a CRC more than once and share CRCs.
DupGames == {g \in SeqsUpTo({ROMLib(1), ROMLib(3)}, 3) : Len(g) >= 1}
DupCatalogs == {g \in SeqsUpTo(DupGames, 2) : Len(g) >= 1 /\ NoDup(g)}
InitDup ==
    /\ pc = "start"
    /\ cr = CrIdle
    /\ bs = BsIdle
    /\ GameList \in DupCatalogs
    /\ Map = <<"A", "B">>
    /\ loadAll \in BOOLEAN
    /\ zip \in SeqsUpTo({CleanEntry(1, ROMLib(1).fileSize), CleanEntry(3, ROMLib(3).fileSize)},
                        MaxEntries)
    /\ InitLoader

\* One game whose ROMs have a group size of 0 or 1, sound archives of its files.
GroupLayouts(c) ==
    {r \in [region : {"A"}, crc : {c}, fileSize : FileSizes, byteSwap : {FALSE},
            offset : {0}, stride : 1..2, groupSize : 0..1] : TRUE}
GroupCatalogs ==
    {<<<<r1>>>> : r1 \in GroupLayouts(1)}
        \cup {<<<<r1, r2>>>> : r1 \in GroupLayouts(1), r2 \in GroupLayouts(2)}
InitGroups ==
    /\ pc = "start"
    /\ cr = CrIdle
    /\ bs = BsIdle
    /\ GameList \in GroupCatalogs
    /\ Map = <<"A", "B">>
    /\ loadAll \in BOOLEAN
    /\ zip \in SeqsUpTo(LayoutEntries(GameList), MaxLayoutEntries)
    /\ InitLoader

\* One game, every layout of its files, sound archives of its files.
InitLayout ==
    /\ pc = "start"
    /\ cr = CrIdle
    /\ bs = BsIdle
    /\ GameList \in LayoutCatalogs
    /\ Map = <<"A", "B">>
    /\ loadAll \in BOOLEAN
    /\ zip \in SeqsUpTo(LayoutEntries(GameList), MaxLayoutEntries)
    /\ InitLoader

\* One CopyRegion call: dest of destSize bytes, the arguments as the caller passed them.
CopyCalls ==
    {[pc |-> "loop", dest |-> [i \in 0..(n - 1) |-> Untouched], destOffset |-> o,
      destSize |-> n, srcSize |-> k, overrun |-> FALSE,
      args |-> [destOffset |-> o, destSize |-> n, srcSize |-> k]] :
        n \in 0..MaxCopy, o \in 0..MaxCopy,
        k \in 0..(MaxCopy + 1) \cup {UIntModulus - 1}}

InitCopy ==
    /\ GameList = <<>>
    /\ Map = <<>>
    /\ loadAll = FALSE
    /\ zip = <<>>
    /\ pc = "idle"
    /\ InitLoader
    /\ cr \in CopyCalls
    /\ bs = BsIdle

Next == OpenArchive \/ ScanFile \/ CheckROMs \/ BeginLoad \/ LoadFile \/ Finish

Spec == Init /\ [][Next]_vars
SpecIO == InitIO /\ [][Next]_vars
SpecLayout == InitLayout /\ [][Next]_vars
SpecCRC == InitCRC /\ [][Next]_vars
SpecDup == InitDup /\ [][Next]_vars
SpecGroups == InitGroups /\ [][Next]_vars

\* Buffers of up to MaxSwap bytes of file data, swapped over their first size bytes.
SwapBytes == {<<1, 0>>, <<1, 1>>}
SwapCalls ==
    {[pc |-> "call", buf |-> b, orig |-> b, size |-> k, calls |-> 0, ub |-> FALSE] :
        b \in UNION {[0..(n - 1) -> SwapBytes] : n \in 0..MaxSwap}, k \in 0..MaxSwap}

InitSwap ==
    /\ GameList = <<>>
    /\ Map = <<>>
    /\ loadAll = FALSE
    /\ zip = <<>>
    /\ pc = "idle"
    /\ InitLoader
    /\ cr = CrIdle
    /\ bs \in {c \in SwapCalls : c.size <= Size(c.buf)}

NextSwap == ByteSwapCall
SpecSwap == InitSwap /\ [][NextSwap]_vars

NextCopy == CopyRegionStep \/ CopyRegionReturn
SpecCopy == InitCopy /\ [][NextCopy]_vars

\* CopyRegion calls on a destination close to the largest unsigned size, and the
\* running program: a CopyRegion that can take a step takes it.
LargeCopyCalls ==
    {[pc |-> "loop", dest |-> [i \in 0..(n - 1) |-> Untouched], destOffset |-> o,
      destSize |-> n, srcSize |-> k, overrun |-> FALSE,
      args |-> [destOffset |-> o, destSize |-> n, srcSize |-> k]] :
        n \in {UIntModulus - 1}, o \in {0, 1},
        k \in {1, UIntModulus \div 2, UIntModulus - 1}}
InitCopyFair ==
    /\ GameList = <<>>
    /\ Map = <<>>
    /\ loadAll = FALSE
    /\ zip = <<>>
    /\ pc = "idle"
    /\ InitLoader
    /\ cr \in CopyCalls \cup LargeCopyCalls
    /\ bs = BsIdle
SpecCopyFair == InitCopyFair /\ [][NextCopy]_vars /\ WF_vars(NextCopy)

-----------------------------------------------------------------------------
(* Vocabulary of the properties, stated on the catalog and the archive alone *)

LogOf(kind) == {k \in 1..Len(log) : log[k][1] = kind}
Logged(kind) == LogOf(kind) # {}
ROMsLogged(kind) == {log[k][3] : k \in LogOf(kind)}

\* The ZIP could not be opened or listed, or the scratch buffer not allocated.
EnvFailed == Logged("open") \/ Logged("contents") \/ Logged("nomem")

\* Entry e is a readable file whose CRC is that of ROM i of game T, and no ROM
\* before i in T has that CRC.
IsROM(e, T, i) ==
    /\ zip[e].hdr
    /\ zip[e].crc = GameList[T][i].crc
    /\ \A j \in 1..(i - 1) : GameList[T][j].crc # zip[e].crc
IsOf(e, T) == \E i \in 1..Len(GameList[T]) : IsROM(e, T, i)
\* Entry e is that file with the expected size, and it can be read in full.
IsSoundROM(e, T, i) ==
    /\ IsROM(e, T, i)
    /\ zip[e].usize = GameList[T][i].fileSize
    /\ zip[e].openOk
    /\ zip[e].stored = GameList[T][i].fileSize
Bound(T, i) == \E m \in 1..Len(Map) : Map[m] = GameList[T][i].region
DestWritten == \E m \in 1..Len(Map), k \in DestIdx : dest[m][k] # Untouched

\* The ROMs of T that no entry of the archive is.
Unresolved(T) == {i \in 1..Len(GameList[T]) : ~\E e \in 1..Len(zip) : IsROM(e, T, i)}
\* The archive holds every ROM of T, sound, and nothing that is not a ROM of T.
HoldsExactly(T) ==
    /\ \A i \in 1..Len(GameList[T]) : \E e \in 1..Len(zip) : IsSoundROM(e, T, i)
    /\ \A e \in 1..Len(zip) : \E i \in 1..Len(GameList[T]) : IsSoundROM(e, T, i)
HoldsAll(T) == \A i \in 1..Len(GameList[T]) : \E e \in 1..Len(zip) : IsSoundROM(e, T, i)

-----------------------------------------------------------------------------
(* C1 *)

\* C1: an archive that holds a complete, correctly sized set of ROMs of exactly one
\* game T (in any order) and whose regions are all bound loads as T, also when a
\* CRC of T is in the ROM list of a game that precedes T in the catalog.
C1_CompleteSetLoadsItsGame ==
    (pc = "done" /\ ~EnvFailed) =>
        \A T \in 1..Len(GameList) :
            (/\ HoldsExactly(T)
             /\ \A U \in 1..Len(GameList) : U # T => ~HoldsAll(U)
             /\ \A i \in 1..Len(GameList[T]) : Bound(T, i))
            => ret = T

-----------------------------------------------------------------------------
(* C2 *)

ScanOver == Game # NULL /\ pc # "scan"

\* C2: when an entry identifies game T and some ROM of T is no entry of the archive,
\* the load returns NULL, and the ROMs reported missing after the scan are exactly
\* the ROMs of T that no entry of the archive is, each reported once.
C2_MissingReportedExactly ==
    ScanOver =>
        /\ ROMsLogged("missing") = Unresolved(Game)
        /\ Cardinality(LogOf("missing")) = Cardinality(Unresolved(Game))
        /\ Unresolved(Game) # {} => (pc = "done" /\ ret = NULL)

C2_Witness ==
    /\ pc = "done"
    /\ Game # NULL
    /\ ret = NULL
    /\ Len(GameList[Game]) = 2
    /\ Unresolved(Game) = {1}
    /\ ROMsLogged("missing") = {1}

-----------------------------------------------------------------------------
(* C3 *)

\* The entries that match some game of the catalog, and the game of the first.
Matching == {e \in 1..Len(zip) : \E T \in 1..Len(GameList) : IsOf(e, T)}
FirstMatch == CHOOSE e \in Matching : \A f \in Matching : e <= f
FirstGame == CHOOSE T \in 1..Len(GameList) :
                /\ IsOf(FirstMatch, T)
                /\ \A U \in 1..Len(GameList) : IsOf(FirstMatch, U) => T <= U
\* The entries that are a file of another game and not of the identified one.
Foreign == {e \in Matching : ~IsOf(e, Game)}

\* C3: the identified game is the game of the first matching entry and never
\* changes; however many entries of other games follow, the warning is given
\* exactly once; and every byte placed comes from an entry of the identified game.
C3_FirstGameWins ==
    /\ Game # NULL => (Matching # {} /\ Game = FirstGame)
    /\ Cardinality(LogOf("multiple")) <= 1
    /\ ScanOver => (Logged("multiple") <=> Foreign # {})
    /\ \A m \in 1..Len(Map), k \in DestIdx :
        dest[m][k] # Untouched =>
            (dest[m][k][1] \in 1..Len(zip) /\ IsOf(dest[m][k][1], Game))

C3_Witness ==
    /\ pc = "done"
    /\ ret = Game
    /\ Game # NULL
    /\ Cardinality(Foreign) >= 2
    /\ Cardinality(LogOf("multiple")) = 1
    /\ Cardinality(LogOf("also")) >= 2
    /\ DestWritten

-----------------------------------------------------------------------------
(* C4 *)

\* The load ended before the load pass: in the scan, or at the check after it.
FailedInScan ==
    /\ pc = "done"
    /\ bufState = "none"
    /\ ~Logged("nomem")

\* C4: a destination byte is written only after the scan found every ROM of the
\* identified game; a load that fails in the scan (the archive cannot be listed, no
\* entry matches, a ROM is missing) leaves every destination buffer as it was.
C4_NoWriteBeforeScanSucceeds ==
    /\ DestWritten => (Game # NULL /\ Unresolved(Game) = {} /\ bufState # "none")
    /\ FailedInScan => ~DestWritten

C4_Witness ==
    /\ FailedInScan
    /\ Logged("missing")
    /\ \E e \in 1..Len(zip), i \in 1..Len(GameList[Game]) :
        IsSoundROM(e, Game, i) /\ Bound(Game, i)
    /\ ~DestWritten

-----------------------------------------------------------------------------
(* C5 *)

\* The load pass ran over the whole archive and the final check was made.
ReachedFinalCheck == pc = "done" /\ bufState = "freed" /\ ~Logged("contents")

\* LoadROM found the declared size of a file, or the number of bytes read from
\* it, different from the ROM's fileSize.
MismatchSeen ==
    \E k \in 1..Len(log) :
        \/ log[k][1] = "size"
        \/ log[k][1] = "read" /\ zip[log[k][2]].openOk

\* C5: a size mismatch on a ROM of the identified game makes the load return
\* NULL, whether loadAll is set or not.
C5_SizeMismatchFailsLoad == (pc = "done" /\ MismatchSeen) => ret = NULL

-----------------------------------------------------------------------------
(* C6 *)

\* Some entry is ROM i of T, passes LoadROM's two length checks, and the ROM's
\* region is in the map.
Loadable(e, T, i) ==
    /\ IsROM(e, T, i)
    /\ zip[e].usize = GameList[T][i].fileSize
    /\ zip[e].openOk
    /\ Min(zip[e].stored, MaxSize(GameList[T])) = GameList[T][i].fileSize
PlacedROMs(T) ==
    {i \in 1..Len(GameList[T]) : Bound(T, i) /\ \E e \in 1..Len(zip) : Loadable(e, T, i)}

\* C6: with loadAll the load returns the game iff every ROM of it was placed
\* (length verified, region mapped), else NULL with every unplaced ROM reported
\* once; a ROM whose region is not in the map makes the load fail.
C6_StrictIffAllPlaced ==
    (loadAll /\ ReachedFinalCheck) =>
        /\ ret = Game <=> PlacedROMs(Game) = 1..Len(GameList[Game])
        /\ ret # Game => ret = NULL
        /\ romsFound = PlacedROMs(Game)
        /\ ROMsLogged("failed") = (1..Len(GameList[Game])) \ PlacedROMs(Game)
        /\ Cardinality(LogOf("failed")) = Cardinality(ROMsLogged("failed"))
        /\ (\E i \in 1..Len(GameList[Game]) : ~Bound(Game, i)) => ret = NULL

C6_Witness ==
    /\ loadAll
    /\ ReachedFinalCheck
    /\ HoldsAll(Game)
    /\ ret = NULL
    /\ Logged("nomap")
    /\ ROMsLogged("failed") = {2}
    /\ DestWritten

-----------------------------------------------------------------------------
(* C7 *)

\* Where placement puts source byte s of a ROM, and the bytes it takes them from.
DestPos(ROM, s) == ROM.offset + (s \div ROM.groupSize) * ROM.stride + (s % ROM.groupSize)
FileBytes(e, ROM) == [s \in 0..(ROM.fileSize - 1) |-> FileByte(e, s)]
\* (the scratch buffer being of the file's size when an odd-sized file is swapped)
Decoded(e, ROM, junk) ==
    IF ROM.byteSwap THEN ByteSwap(FileBytes(e, ROM), ROM.fileSize, junk) ELSE FileBytes(e, ROM)

\* C7: without loadAll, an archive with every ROM of the identified game at the
\* right size and a map without one of the game's regions loads as the game: the
\* ROMs of mapped regions are placed, those of unmapped regions write nothing.
C7_NonStrictSkipsUnbound ==
    (/\ ~loadAll
     /\ ReachedFinalCheck
     /\ HoldsAll(Game)
     /\ \E i \in 1..Len(GameList[Game]) : ~Bound(Game, i))
    => /\ ret = Game
       /\ \A i \in 1..Len(GameList[Game]) :
            Bound(Game, i) =>
                \E e \in 1..Len(zip), junk \in Junk :
                    /\ Loadable(e, Game, i)
                    /\ \A s \in 0..(GameList[Game][i].fileSize - 1) :
                        dest[MapIndex(Map, GameList[Game][i].region)]
                            [DestPos(GameList[Game][i], s)]
                        = Decoded(e, GameList[Game][i], junk)[s]
       /\ \A m \in 1..Len(Map), k \in DestIdx :
            dest[m][k] # Untouched =>
                \E i \in 1..Len(GameList[Game]) :
                    Bound(Game, i) /\ IsROM(dest[m][k][1], Game, i)

C7_Witness ==
    /\ ~loadAll
    /\ ReachedFinalCheck
    /\ HoldsAll(Game)
    /\ Len(GameList[Game]) = 2
    /\ ~Bound(Game, 2)
    /\ ret = Game
    /\ DestWritten

-----------------------------------------------------------------------------
(* C8 *)

\* CopyRegion(dest, 0, N, src, k) was called with 0 < k <= N and has returned.
TiledFromZero ==
    /\ cr.pc = "done"
    /\ cr.args.destOffset = 0
    /\ 0 < cr.args.srcSize
    /\ cr.args.srcSize <= cr.args.destSize

-----------------------------------------------------------------------------
(* C9 *)

\* The ROM indices of game T (none before a game is identified).
ROMsOf(T) == IF T = NULL THEN {} ELSE 1..Len(GameList[T])

\* The load loop is at a file that LoadROM places as ROM i of the game.
Placing(i) ==
    /\ pc = "load"
    /\ pos <= Len(zip)
    /\ Loadable(pos, Game, i)
    /\ Bound(Game, i)

\* The region of ROM i after a contiguous copy of its decoded bytes (now in the
\* scratch buffer b) at its offset into region contents p.
ContiguousCopy(p, b, ROM) ==
    [k \in DOMAIN p |->
        IF ROM.offset <= k /\ k < ROM.offset + ROM.fileSize THEN b[k - ROM.offset] ELSE p[k]]

\* C9: placing a ROM with groupSize = stride = fileSize = L writes
\* dest[offset + s] = source[s] for every s in [0, L) and changes no other byte
\* of any destination: it is one contiguous copy of L bytes at offset.
C9_WholeGroupIsContiguousCopy ==
    [][\A i \in ROMsOf(Game) :
        (/\ Placing(i)
         /\ GameList[Game][i].groupSize = GameList[Game][i].fileSize
         /\ GameList[Game][i].stride = GameList[Game][i].fileSize)
        => dest' = [dest EXCEPT ![MapIndex(Map, GameList[Game][i].region)] =
                        ContiguousCopy(@, buf', GameList[Game][i])]]_vars

\* A two-byte ROM with groupSize = stride = 2 was copied to offset 1.
C9_Witness ==
    /\ pc = "done"
    /\ ret = 1
    /\ Len(GameList[1]) = 1
    /\ GameList[1][1].fileSize = 2
    /\ GameList[1][1].groupSize = 2
    /\ GameList[1][1].stride = 2
    /\ GameList[1][1].offset = 1
    /\ GameList[1][1].byteSwap
    /\ romsFound = {1}
    /\ \E e \in 1..Len(zip) :
          dest[1] = [k \in DestIdx |->
                        IF k = 1 THEN FileByte(e, 1)
                        ELSE IF k = 2 THEN FileByte(e, 0) ELSE Untouched]

-----------------------------------------------------------------------------
(* C10 *)

\* The region of a ROM with groupSize 1 and stride 2 after its placement.
EveryOtherByte(p, b, ROM) ==
    [k \in DOMAIN p |->
        IF \E s \in 0..(ROM.fileSize - 1) : k = ROM.offset + 2 * s
        THEN b[(k - ROM.offset) \div 2] ELSE p[k]]

\* The game is two ROMs of one length and one region, both with groupSize 1 and
\* stride 2, ROM lo at offset 0 and ROM hi at offset 1.
Interleaved(T, lo, hi) ==
    /\ Len(GameList[T]) = 2
    /\ {lo, hi} = {1, 2}
    /\ GameList[T][lo].offset = 0
    /\ GameList[T][hi].offset = 1
    /\ GameList[T][1].fileSize = GameList[T][2].fileSize
    /\ GameList[T][1].region = GameList[T][2].region
    /\ \A i \in 1..2 : GameList[T][i].groupSize = 1 /\ GameList[T][i].stride = 2

\* Region bytes offset, offset + 2, ... are the decoded bytes of a file of ROM i.
HoldsDecoded(p, T, i) ==
    \E e \in 1..Len(zip), junk \in Junk :
        /\ Loadable(e, T, i)
        /\ \A s \in 0..(GameList[T][i].fileSize - 1) :
              p[GameList[T][i].offset + 2 * s] = Decoded(e, GameList[T][i], junk)[s]

\* C10: placing a ROM with groupSize 1 and stride 2 writes source byte s to
\* dest[offset + 2s] and nothing else; two ROMs of length L with stride 2 at
\* offsets 0 and 1, loaded in either order, leave indices 0..2L-1 all written,
\* dest[2s] from the first and dest[2s+1] from the second, none overwritten.
C10_StrideTwoInterleaves ==
    /\ [][\A i \in ROMsOf(Game) :
            (/\ Placing(i)
             /\ GameList[Game][i].groupSize = 1
             /\ GameList[Game][i].stride = 2)
            => dest' = [dest EXCEPT ![MapIndex(Map, GameList[Game][i].region)] =
                            EveryOtherByte(@, buf', GameList[Game][i])]]_vars
    /\ [](\A lo \in 1..2, hi \in 1..2 :
            (pc = "done" /\ ret # NULL /\ Interleaved(Game, lo, hi))
            => LET p == dest[MapIndex(Map, GameList[Game][1].region)]
                   L == GameList[Game][1].fileSize
               IN  /\ HoldsDecoded(p, Game, lo)
                   /\ HoldsDecoded(p, Game, hi)
                   /\ \A k \in DestIdx : p[k] # Untouched <=> k < 2 * L)

\* Two two-byte ROMs, the one at offset 1 first in the archive, are interleaved.
C10_Witness ==
    /\ pc = "done"
    /\ ret = 1
    /\ Interleaved(1, 1, 2)
    /\ GameList[1][1].fileSize = 2
    /\ ~GameList[1][1].byteSwap
    /\ ~GameList[1][2].byteSwap
    /\ Len(zip) = 2
    /\ zip[1].crc = GameList[1][2].crc
    /\ zip[2].crc = GameList[1][1].crc
    /\ dest[1] = [k \in DestIdx |-> FileByte(IF k % 2 = 0 THEN 2 ELSE 1, k \div 2)]

-----------------------------------------------------------------------------
(* C11 *)

\* C11: ByteSwap applied twice to a buffer with the same size leaves the buffer
\* with its original contents, for every buffer and every size, even or odd.
C11_ByteSwapTwiceRestores == (bs.pc = "call" /\ bs.calls = 2) => bs.buf = bs.orig

-----------------------------------------------------------------------------
(* C12 *)

\* The region of ROM after the placement of the decoded bytes of the file at e.
PlacedAt(p, e, ROM, junk) ==
    [k \in DOMAIN p |->
        IF \E s \in 0..(ROM.fileSize - 1) : k = DestPos(ROM, s)
        THEN Decoded(e, ROM, junk)[CHOOSE s \in 0..(ROM.fileSize - 1) : k = DestPos(ROM, s)]
        ELSE p[k]]

\* C12: a CRC error reported when an extracted file is closed only adds a
\* warning: the file is still byte-swapped if flagged, placed in its region and
\* marked as loaded, and a load returns NULL only for another reason.
C12_CRCErrorIsWarning ==
    /\ [][\A i \in ROMsOf(Game) :
            (Placing(i) /\ zip[pos].corrupt)
            => /\ log' = Append(log, <<"crc", pos, i>>)
               /\ romsFound' = romsFound \cup {i}
               /\ \E junk \in Junk :
                    dest' = [dest EXCEPT ![MapIndex(Map, GameList[Game][i].region)] =
                                PlacedAt(@, pos, GameList[Game][i], junk)]]_vars
    /\ []((pc = "done" /\ ret = NULL /\ Logged("crc"))
            => \/ EnvFailed
               \/ Logged("nogame")
               \/ Logged("missing")
               \/ Logged("size")
               \/ Logged("read")
               \/ Logged("name")
               \/ Logged("nomap"))

\* A strict load of an archive whose byte-swapped file fails its CRC check returns
\* the game, with that file's bytes swapped and in place.
C12_Witness ==
    /\ pc = "done"
    /\ loadAll
    /\ ret = 1
    /\ GameList = <<CRCGame>>
    /\ \E e \in 1..Len(zip) :
          /\ zip[e].corrupt
          /\ zip[e].crc = 2
          /\ <<"crc", e, 1>> \in {log[k] : k \in 1..Len(log)}
          /\ dest[1][1] = FileByte(e, 1)
          /\ dest[1][3] = FileByte(e, 0)
    /\ romsFound = {1, 2}

-----------------------------------------------------------------------------
(* C13 *)

\* The positions of crc in the ROM list of game T, and the games that list it.
Positions(T, crc) == {j \in 1..Len(GameList[T]) : GameList[T][j].crc = crc}
Listing(crc) == {T \in 1..Len(GameList) : Positions(T, crc) # {}}
Lowest(S) == CHOOSE x \in S : \A y \in S : x <= y

\* C13: FindROMByCRC finds a CRC iff some game of the catalog lists it, whatever
\* the bias game; the game found is the bias game when that lists the CRC, else
\* the first game of the catalog that does, and the index is the lowest
\* position of the CRC in that game.
C13_FindROMByCRC ==
    \A TryGame \in {NULL} \cup (1..Len(GameList)), crc \in CRCs \cup {0} :
        LET hit == FindROMByCRC(GameList, TryGame, crc)
        IN  /\ hit[1] # NULL <=> Listing(crc) # {}
            /\ hit[1] = NULL => hit[2] = 0
            /\ hit[1] # NULL =>
                /\ hit[1] \in 1..Len(GameList)
                /\ hit[2] \in 1..Len(GameList[hit[1]])
                /\ GameList[hit[1]][hit[2]].crc = crc
                /\ hit[1] = IF TryGame \in Listing(crc) THEN TryGame ELSE Lowest(Listing(crc))
                /\ hit[2] = Lowest(Positions(hit[1], crc))

\* The scan identified game 2 and then matched, in game 2, a file whose CRC game 1
\* lists too and game 2 lists twice: only the first of the two positions was marked.
C13_Witness ==
    /\ pc = "done"
    /\ Game = 2
    /\ Len(zip) = 2
    /\ Listing(zip[2].crc) = {1, 2}
    /\ Positions(2, zip[2].crc) = {2, 3}
    /\ ROMsLogged("missing") = {3}

-----------------------------------------------------------------------------
(* C14 *)

\* Region contents p after source bytes 0..L-1 of scratch buffer b, and no
\* others, went to offset + (s div groupSize) * stride + (s mod groupSize).
ByFormula(p, b, ROM) ==
    [k \in DOMAIN p |->
        LET from == {s \in 0..(ROM.fileSize - 1) : k = DestPos(ROM, s)}
        IN  IF from = {} THEN p[k]
            ELSE b[CHOOSE s \in from : \A t \in from : t <= s]]

\* C14: for every layout with groupSize >= 1, also when the file length L is no
\* multiple of groupSize, placement reads exactly source bytes 0..L-1, writes
\* byte s to offset + (s div groupSize) * stride + (s mod groupSize) and
\* writes no other destination index.
C14_PlacementByFormula ==
    [][\A i \in ROMsOf(Game) :
        (Placing(i) /\ GameList[Game][i].groupSize >= 1)
        => /\ PlaceSrcIdx(GameList[Game][i]) = 0..(GameList[Game][i].fileSize - 1)
           /\ dest' = [dest EXCEPT ![MapIndex(Map, GameList[Game][i].region)] =
                           ByFormula(@, buf', GameList[Game][i])]]_vars

-----------------------------------------------------------------------------
(* C15 *)

\* C15: a CopyRegion call with srcSize > 0 writes only destination indices in
\* [destOffset, destSize), also when destOffset + srcSize wraps around; with
\* destOffset >= destSize it writes nothing.
C15_WritesOnlyInWindow ==
    (cr.pc # "idle" /\ cr.args.srcSize > 0) =>
        /\ ~cr.overrun
        /\ \A i \in DOMAIN cr.dest : i < cr.args.destOffset => cr.dest[i] = Untouched
        /\ cr.args.destOffset >= cr.args.destSize =>
              \A i \in DOMAIN cr.dest : cr.dest[i] = Untouched

-----------------------------------------------------------------------------
(* C16 *)

\* C16: every CopyRegion call with srcSize > 0 returns, with its cursor equal to
\* destSize when destOffset <= destSize on entry; a call with srcSize = 0 and
\* destOffset < destSize never returns.
C16_CopyRegionTerminates ==
    /\ (cr.pc = "loop" /\ cr.args.srcSize > 0) ~> (cr.pc = "done")
    /\ []((cr.pc = "done" /\ cr.args.destOffset <= cr.args.destSize)
            => cr.destOffset = cr.args.destSize)
    /\ []((cr.args.srcSize = 0 /\ cr.args.destOffset < cr.args.destSize) => cr.pc # "done")

-----------------------------------------------------------------------------
(* C17 *)

\* C17: a load call goes from opening through scanning and extracting to one
\* terminal state, the game returned or NULL returned: until it has returned it
\* always has a next step, also while placing a ROM with groupSize 0 and a
\* non-zero file length.
C17_LoadReachesTerminalState ==
    /\ pc = "done" \/ ENABLED Next
    /\ pc = "done" <=> ret # Running
    /\ pc = "done" => (ret = NULL \/ (Game # NULL /\ ret = Game))

-----------------------------------------------------------------------------
(* C18 *)

\* C18: every index at which byte swap and placement access the scratch buffer is
\* below the buffer's size, the largest fileSize of the identified game, also for
\* a byte-swapped ROM of odd length equal to that size and for a ROM whose length
\* is no multiple of its groupSize.
C18_ScratchAccessInBounds ==
    /\ bufState = "live" => DOMAIN buf = 0..(MaxSize(GameList[Game]) - 1)
    /\ ~ub

-----------------------------------------------------------------------------
(* C19 *)

\* C19: when LoadROMSetFromZIPFile returns, the archive handle, if it was opened,
\* has been closed, also when the first file could not be listed or no file
\* matched a game, and the scratch buffer, if it was allocated, has been freed.
C19_HandleClosedBufferFreed ==
    pc = "done" => (zf # "open" /\ bufState # "live")

-----------------------------------------------------------------------------
(* C20 *)

\* The archive is one file per ROM of game T and nothing else, every length is a
\* multiple of its groupSize, and no two ROMs of a region share a destination index.
OneFilePerROM(T) ==
    /\ Len(zip) = Len(GameList[T])
    /\ \A i \in 1..Len(GameList[T]) : \E e \in 1..Len(zip) : IsSoundROM(e, T, i)
    /\ \A i, j \in 1..Len(GameList[T]) : i # j => GameList[T][i].crc # GameList[T][j].crc
WholeGroups(T) ==
    \A i \in 1..Len(GameList[T]) :
        GameList[T][i].groupSize >= 1 /\ GameList[T][i].fileSize % GameList[T][i].groupSize = 0
DisjointFootprints(T) ==
    \A i, j \in 1..Len(GameList[T]) :
        (i # j /\ GameList[T][i].region = GameList[T][j].region)
        => PlaceDestIdx(GameList[T][i]) \cap PlaceDestIdx(GameList[T][j]) = {}
FileOf(T, i) == CHOOSE e \in 1..Len(zip) : IsSoundROM(e, T, i)

\* The file byte that ends at source index s once pairs of bytes are swapped.
SwapSource(ROM, s) == IF ROM.byteSwap THEN (IF s % 2 = 0 THEN s + 1 ELSE s - 1) ELSE s

\* C20: for an archive of one file per ROM of one game, lengths multiples of the
\* groupSize and disjoint footprints, the result does not depend on the order of
\* the files: the game is returned and every destination byte is a function of
\* the file of the ROM whose footprint it is in, never a byte of another file
\* left in the scratch buffer; bytes outside every footprint are untouched.
C20_OrderIndependent ==
    (/\ pc = "done"
     /\ ~EnvFailed
     /\ Game # NULL
     /\ OneFilePerROM(Game)
     /\ WholeGroups(Game)
     /\ DisjointFootprints(Game)
     /\ \A i \in 1..Len(GameList[Game]) : Bound(Game, i))
    => /\ ret = Game
       /\ \A i \in 1..Len(GameList[Game]) :
            \A s \in 0..(GameList[Game][i].fileSize - 1) :
                dest[MapIndex(Map, GameList[Game][i].region)][DestPos(GameList[Game][i], s)]
                    = FileByte(FileOf(Game, i), SwapSource(GameList[Game][i], s))
       /\ \A m \in 1..Len(Map), k \in DestIdx :
            dest[m][k] # Untouched =>
                \E i \in 1..Len(GameList[Game]) :
                    /\ MapIndex(Map, GameList[Game][i].region) = m
                    /\ k \in PlaceDestIdx(GameList[Game][i])

====
